---- MODULE Spec2Model ----
(***************************************************************************)
(* Model of room_game.py: the Color Door Adventure.                        *)
(*                                                                         *)
(* The world built by Game.create_world (six rooms, ten doors, two keys,   *)
(* one custom action), the Player methods take_key / use_key /             *)
(* list_inventory, and the command loop of Game.play.                      *)
(*                                                                         *)
(* A line of text is a sequence of tokens.  A token is a word, or one      *)
(* whitespace character (SP, TAB).  Every line the model feeds to the      *)
(* prompt separates its words by whitespace, so one token is one field of  *)
(* str.split().                                                            *)
(***************************************************************************)
EXTENDS Integers, Sequences, FiniteSets, TLC

VARIABLES current_room, inventory, keys, doors, light_on,
          pc, line, command, shown, out, pulls, again, scen

vars == <<current_room, inventory, keys, doors, light_on,
          pc, line, command, shown, out, pulls, again, scen>>

----------------------------------------------------------------------------
(* Bounds *)

\* largest number of blanks put before and after a typed line
MaxPad == 1

\* largest number of times the closet string is pulled in one run
MaxPulls == 3

----------------------------------------------------------------------------
(* Text *)

SP == " "

TAB == "\t"

IsSpace(t) == t \in {SP, TAB}

\* str.lower() on one token
LowerTok(t) ==
  CASE t = "QUIT" -> "quit"
    [] t = "Quit" -> "quit"
    [] t = "USE" -> "use"
    [] t = "Blue" -> "blue"
    [] t = "KEY" -> "key"
    [] t = "Red" -> "red"
    [] t = "Pull" -> "pull"
    [] t = "Take" -> "take"
    [] OTHER -> t

Lower(s) == [i \in 1..Len(s) |-> LowerTok(s[i])]

RECURSIVE LStrip(_)
LStrip(s) == IF s # <<>> /\ IsSpace(Head(s)) THEN LStrip(Tail(s)) ELSE s

RECURSIVE RStrip(_)
RStrip(s) ==
  IF s # <<>> /\ IsSpace(s[Len(s)]) THEN RStrip(SubSeq(s, 1, Len(s) - 1)) ELSE s

\* str.strip()
Strip(s) == RStrip(LStrip(s))

\* Normalize as it would be if the lowercasing were forgotten
Normalize_nolower(raw) == Strip(raw)

\* input("\n> ").strip().lower()
Normalize(raw) == Lower(Strip(raw))

\* str.split(): the fields between runs of whitespace
Split(s) == SelectSeq(s, LAMBDA t : ~IsSpace(t))

\* command.startswith("use ")
StartsWithUse(c) == Len(c) >= 2 /\ c[1] = "use" /\ c[2] = SP

QuitCmd == <<"quit">>

TakeKeyCmd == <<"take", SP, "key">>

InventoryCmd == <<"inventory">>

PullStringCmd == <<"pull", SP, "string">>

----------------------------------------------------------------------------
(* The world *)

Kitchen == "Kitchen"

LivingRoom == "Living Room"

Study == "Study"

Garden == "Garden"

Bedroom == "Bedroom"

BedroomCloset == "Bedroom Closet"

Rooms == {Kitchen, LivingRoom, Study, Garden, Bedroom, BedroomCloset}

\* KeyColor as it would be if the Garden's key were made orange
KeyColor_orange == [key_blue |-> "blue", key_cyan |-> "orange"]

\* the two Key objects and their color attribute
KeyColor == [key_blue |-> "blue", key_cyan |-> "cyan"]

AllKeys == <<"key_blue", "key_cyan">>

Door(color, leads_to, locked) ==
  [color |-> color, leads_to |-> leads_to, locked |-> locked]

add_door(ds, room, color, leads_to, locked) ==
  [ds EXCEPT ![room] = Append(@, Door(color, leads_to, locked))]

add_key(ks, room, key) == [ks EXCEPT ![room] = Append(@, key)]

\* DoorDecls as it would be if locked=True were left out for Kitchen's blue door
DoorDecls_blue_open ==
  << <<Kitchen, "red", LivingRoom, FALSE>>,
     <<Kitchen, "blue", Study, FALSE>>,
     <<LivingRoom, "green", Kitchen, FALSE>>,
     <<LivingRoom, "yellow", Garden, FALSE>>,
     <<Study, "purple", Kitchen, FALSE>>,
     <<Garden, "orange", LivingRoom, TRUE>>,
     <<LivingRoom, "cyan", Bedroom, FALSE>>,
     <<Bedroom, "black", LivingRoom, FALSE>>,
     <<Bedroom, "white", BedroomCloset, FALSE>>,
     <<BedroomCloset, "white", LivingRoom, FALSE>> >>

\* the add_door calls of create_world, in source order
DoorDecls ==
  << <<Kitchen, "red", LivingRoom, FALSE>>,
     <<Kitchen, "blue", Study, TRUE>>,
     <<LivingRoom, "green", Kitchen, FALSE>>,
     <<LivingRoom, "yellow", Garden, FALSE>>,
     <<Study, "purple", Kitchen, FALSE>>,
     <<Garden, "orange", LivingRoom, TRUE>>,
     <<LivingRoom, "cyan", Bedroom, FALSE>>,
     <<Bedroom, "black", LivingRoom, FALSE>>,
     <<Bedroom, "white", BedroomCloset, FALSE>>,
     <<BedroomCloset, "white", LivingRoom, FALSE>> >>

\* KeyDecls as it would be if the blue key were placed in the Kitchen
KeyDecls_blue_in_kitchen == << <<Kitchen, "key_blue">>, <<Garden, "key_cyan">> >>

\* the add_key calls of create_world, in source order
KeyDecls == << <<LivingRoom, "key_blue">>, <<Garden, "key_cyan">> >>

RECURSIVE BuildDoors(_, _)
BuildDoors(ds, decls) ==
  IF decls = <<>> THEN ds
  ELSE LET d == Head(decls)
       IN BuildDoors(add_door(ds, d[1], d[2], d[3], d[4]), Tail(decls))

RECURSIVE BuildKeys(_, _)
BuildKeys(ks, decls) ==
  IF decls = <<>> THEN ks
  ELSE LET d == Head(decls)
       IN BuildKeys(add_key(ks, d[1], d[2]), Tail(decls))

InitDoors == BuildDoors([r \in Rooms |-> <<>>], DoorDecls)

InitKeys == BuildKeys([r \in Rooms |-> <<>>], KeyDecls)

\* Actions as it would be if the actions mapping were shared by all rooms
Actions_everywhere == [r \in Rooms |-> {PullStringCmd}]

\* Room.actions: the command strings registered by add_action
Actions == [r \in Rooms |-> IF r = BedroomCloset THEN {PullStringCmd} ELSE {}]

Colors == {DoorDecls[i][2] : i \in DOMAIN DoorDecls}

----------------------------------------------------------------------------
(* Messages *)

NoKeysMsg == <<"There are no keys here to take.">>

PickedUpMsg(color) == <<"You picked up the key.", color>>

NoSuchKeyMsg(color) == <<"You don't have a key.", color>>

NoSuchDoorMsg(color) == <<"There is no door here.", color>>

AlreadyUnlockedMsg(color) == <<"The door is already unlocked.", color>>

UnlockedMsg(color) == <<"You used the key to unlock the door!", color>>

NotCarryingMsg == <<"You're not carrying any keys.">>

UsageMsg == <<"Try 'use [color] key'.">>

LightOnMsg == <<"the light flickers on">>

LightOffMsg == <<"the light clicks off">>

NoDoorMsg == <<"There is no door of that color here.">>

LockedMsg == <<"That door is locked. You need the matching key.">>

FarewellMsg == <<"Thanks for playing!">>

----------------------------------------------------------------------------
(* Game state as a value, and the methods as functions on it *)

State ==
  [current_room |-> current_room, inventory |-> inventory, keys |-> keys,
   doors |-> doors, light_on |-> light_on, out |-> <<>>]

\* FirstDoor as it would be if the last door of that color were taken
FirstDoor_last(ds, color) ==
  IF \E i \in 1..Len(ds) : ds[i].color = color
  THEN CHOOSE i \in 1..Len(ds) :
         /\ ds[i].color = color
         /\ \A j \in (i + 1)..Len(ds) : ds[j].color # color
  ELSE 0

\* next((d for d in doors if d.color == color), None): index of the
\* first door of that color, 0 for None
FirstDoor(ds, color) ==
  IF \E i \in 1..Len(ds) : ds[i].color = color
  THEN CHOOSE i \in 1..Len(ds) :
         /\ ds[i].color = color
         /\ \A j \in 1..(i - 1) : ds[j].color # color
  ELSE 0

\* next((k for k in inventory if k.color == color), None)
FirstKey(inv, color) ==
  IF \E i \in 1..Len(inv) : KeyColor[inv[i]] = color
  THEN CHOOSE i \in 1..Len(inv) :
         /\ KeyColor[inv[i]] = color
         /\ \A j \in 1..(i - 1) : KeyColor[inv[j]] # color
  ELSE 0

\* remove_key as it would be if it left the list alone
remove_key_noop(ks, key) == ks

\* Room.remove_key: list.remove of the first occurrence, if present
remove_key(ks, key) ==
  IF \E i \in 1..Len(ks) : ks[i] = key
  THEN LET i == CHOOSE i \in 1..Len(ks) :
                  ks[i] = key /\ \A j \in 1..(i - 1) : ks[j] # key
       IN SubSeq(ks, 1, i - 1) \o SubSeq(ks, i + 1, Len(ks))
  ELSE ks

\* TakeLoop as it would be if keys were inserted at the front of the inventory
RECURSIVE TakeLoop_prepend(_, _)
TakeLoop_prepend(g, copy) ==
  IF copy = <<>> THEN g
  ELSE LET key == Head(copy)
       IN TakeLoop_prepend(
            [g EXCEPT !.out = Append(@, PickedUpMsg(KeyColor[key])),
                      !.inventory = <<key>> \o @,
                      !.keys[g.current_room] = remove_key(@, key)],
            Tail(copy))

\* the for loop of take_key over the copy list(self.current_room.keys)
RECURSIVE TakeLoop(_, _)
TakeLoop(g, copy) ==
  IF copy = <<>> THEN g
  ELSE LET key == Head(copy)
       IN TakeLoop([g EXCEPT !.out = Append(@, PickedUpMsg(KeyColor[key])),
                             !.inventory = Append(@, key),
                             !.keys[g.current_room] = remove_key(@, key)],
                   Tail(copy))

take_key(g) ==
  IF g.keys[g.current_room] = <<>>
  THEN [g EXCEPT !.out = Append(@, NoKeysMsg)]
  ELSE TakeLoop(g, g.keys[g.current_room])

\* use_key as it would be without the check that the key is held
use_key_nokeycheck(g, color) ==
  LET door == FirstDoor(g.doors[g.current_room], color)
  IN IF door = 0 THEN [g EXCEPT !.out = Append(@, NoSuchDoorMsg(color))]
     ELSE IF ~g.doors[g.current_room][door].locked
          THEN [g EXCEPT !.out = Append(@, AlreadyUnlockedMsg(color))]
     ELSE [g EXCEPT !.doors[g.current_room][door].locked = FALSE,
                    !.out = Append(@, UnlockedMsg(color))]

\* use_key as it would be if unlocking a door also walked through it
use_key_enters(g, color) ==
  LET key == FirstKey(g.inventory, color)
      door == FirstDoor(g.doors[g.current_room], color)
  IN IF key = 0 THEN [g EXCEPT !.out = Append(@, NoSuchKeyMsg(color))]
     ELSE IF door = 0 THEN [g EXCEPT !.out = Append(@, NoSuchDoorMsg(color))]
     ELSE IF ~g.doors[g.current_room][door].locked
          THEN [g EXCEPT !.out = Append(@, AlreadyUnlockedMsg(color))]
     ELSE [g EXCEPT !.doors[g.current_room][door].locked = FALSE,
                    !.current_room = g.doors[g.current_room][door].leads_to,
                    !.out = Append(@, UnlockedMsg(color))]

\* use_key as it would be if it unlocked the doors of that color in every room
use_key_anywhere(g, color) ==
  LET key == FirstKey(g.inventory, color)
  IN IF key = 0 THEN [g EXCEPT !.out = Append(@, NoSuchKeyMsg(color))]
     ELSE [g EXCEPT !.doors = [r \in Rooms |->
                                [i \in 1..Len(g.doors[r]) |->
                                  IF g.doors[r][i].color = color
                                  THEN [g.doors[r][i] EXCEPT !.locked = FALSE]
                                  ELSE g.doors[r][i]]],
                    !.out = Append(@, UnlockedMsg(color))]

\* use_key as it would be if the key were used up by unlocking
use_key_consumes(g, color) ==
  LET key == FirstKey(g.inventory, color)
      door == FirstDoor(g.doors[g.current_room], color)
  IN IF key = 0 THEN [g EXCEPT !.out = Append(@, NoSuchKeyMsg(color))]
     ELSE IF door = 0 THEN [g EXCEPT !.out = Append(@, NoSuchDoorMsg(color))]
     ELSE IF ~g.doors[g.current_room][door].locked
          THEN [g EXCEPT !.out = Append(@, AlreadyUnlockedMsg(color))]
     ELSE [g EXCEPT !.doors[g.current_room][door].locked = FALSE,
                    !.inventory = SubSeq(@, 1, key - 1) \o SubSeq(@, key + 1, Len(@)),
                    !.out = Append(@, UnlockedMsg(color))]

\* use_key as it would be if it flipped the locked flag
use_key_toggle(g, color) ==
  LET key == FirstKey(g.inventory, color)
      door == FirstDoor(g.doors[g.current_room], color)
  IN IF key = 0 THEN [g EXCEPT !.out = Append(@, NoSuchKeyMsg(color))]
     ELSE IF door = 0 THEN [g EXCEPT !.out = Append(@, NoSuchDoorMsg(color))]
     ELSE [g EXCEPT !.doors[g.current_room][door].locked = ~@,
                    !.out = Append(@, UnlockedMsg(color))]

use_key(g, color) ==
  LET key == FirstKey(g.inventory, color)
      door == FirstDoor(g.doors[g.current_room], color)
  IN IF key = 0 THEN [g EXCEPT !.out = Append(@, NoSuchKeyMsg(color))]
     ELSE IF door = 0 THEN [g EXCEPT !.out = Append(@, NoSuchDoorMsg(color))]
     ELSE IF ~g.doors[g.current_room][door].locked
          THEN [g EXCEPT !.out = Append(@, AlreadyUnlockedMsg(color))]
     ELSE [g EXCEPT !.doors[g.current_room][door].locked = FALSE,
                    !.out = Append(@, UnlockedMsg(color))]

list_inventory(g) ==
  IF g.inventory = <<>>
  THEN [g EXCEPT !.out = Append(@, NotCarryingMsg)]
  ELSE [g EXCEPT !.out = @ \o <<<<"You have the following keys:">>>>
                   \o [i \in 1..Len(g.inventory) |->
                        <<"key", KeyColor[g.inventory[i]]>>]]

\* toggle_light as it would be if it switched the light on instead of flipping it
toggle_light_on(g) ==
  [g EXCEPT !.light_on = TRUE, !.out = Append(@, LightOnMsg)]

toggle_light(g) ==
  LET on == ~g.light_on
  IN [g EXCEPT !.light_on = on,
               !.out = Append(@, IF on THEN LightOnMsg ELSE LightOffMsg)]

\* use_command as it would be if any line with a second field were accepted
use_command_lenient(g, c) ==
  LET parts == Split(c)
  IN IF Len(parts) >= 2
     THEN use_key(g, parts[2])
     ELSE [g EXCEPT !.out = Append(@, UsageMsg)]

\* the "use " branch of play
use_command(g, c) ==
  LET parts == Split(c)
  IN IF Len(parts) = 3 /\ parts[3] = "key"
     THEN use_key(g, parts[2])
     ELSE [g EXCEPT !.out = Append(@, UsageMsg)]

\* move as it would be without the check of the locked flag
move_ignore_lock(g, c) ==
  LET ds == g.doors[g.current_room]
      door == IF \E i \in 1..Len(ds) : <<ds[i].color>> = c
              THEN FirstDoor(ds, c[1]) ELSE 0
  IN IF door = 0 THEN [g EXCEPT !.out = Append(@, NoDoorMsg)]
     ELSE [g EXCEPT !.current_room = ds[door].leads_to]

\* move as it would be if it walked through the room's first door whatever
\* the color found
move_first_door(g, c) ==
  LET ds == g.doors[g.current_room]
      door == IF \E i \in 1..Len(ds) : <<ds[i].color>> = c
              THEN FirstDoor(ds, c[1]) ELSE 0
  IN IF door = 0 THEN [g EXCEPT !.out = Append(@, NoDoorMsg)]
     ELSE IF ds[door].locked THEN [g EXCEPT !.out = Append(@, LockedMsg)]
     ELSE [g EXCEPT !.current_room = ds[1].leads_to]

\* the else branch of play: movement by door color.  The door's color is
\* compared with the whole command.
move(g, c) ==
  LET ds == g.doors[g.current_room]
      door == IF \E i \in 1..Len(ds) : <<ds[i].color>> = c
              THEN FirstDoor(ds, c[1]) ELSE 0
  IN IF door = 0 THEN [g EXCEPT !.out = Append(@, NoDoorMsg)]
     ELSE IF ds[door].locked THEN [g EXCEPT !.out = Append(@, LockedMsg)]
     ELSE [g EXCEPT !.current_room = ds[door].leads_to]

\* Room.describe: the lines it prints
describe(room) ==
  << <<"You are in the", room>> >>
  \o (IF doors[room] # <<>>
      THEN << <<"You see doors in these colors:">> >>
           \o [i \in 1..Len(doors[room]) |->
                <<"door", doors[room][i].color,
                  IF doors[room][i].locked THEN " (locked)" ELSE "">>]
      ELSE << <<"There are no doors here!">> >>)
  \o (IF keys[room] # <<>>
      THEN << <<"You see some keys:">> >>
           \o [i \in 1..Len(keys[room]) |-> <<"key", KeyColor[keys[room][i]]>>]
      ELSE <<>>)
  \o (IF Actions[room] # {}
      THEN << <<"You can also try actions like:">>, <<"action", PullStringCmd>> >>
      ELSE <<>>)

\* Room_describe as it would be if listing the keys took them out of the room
Room_describe_takes(g) ==
  [g EXCEPT !.out = @ \o describe(g.current_room),
            !.keys[g.current_room] = <<>>]

\* the call self.player.current_room.describe() at the top of the loop
Room_describe(g) == [g EXCEPT !.out = @ \o describe(g.current_room)]

\* the first commands of a play-through: red, take key, green, blue
Scenario == << <<"red">>, TakeKeyCmd, <<"green">>, <<"blue">> >>

----------------------------------------------------------------------------
(* The lines typed at the prompt *)

Lines ==
  { <<>>, <<"quit">>, <<"QUIT">>, <<"quit", SP, "key">>, <<TAB, "quit", TAB>>,
    <<"take", SP, "key">>, <<"Take", SP, "KEY">>, <<"take", SP, SP, "key">>,
    <<"take", TAB, "key">>,
    <<"inventory">>, <<"pull", SP, "string">>, <<"Pull", SP, "string">>,
    <<"use">>, <<"use", SP, "key">>, <<"use", SP, "blue">>,
    <<"use", TAB, "blue", SP, "key">>, <<"use", SP, SP, "blue", TAB, "key">>,
    <<"use", SP, "blue", SP, "key", SP, "quit">>,
    <<"use", SP, "blue", SP, "door">>, <<"USE", SP, "Blue", SP, "KEY">> }
  \cup { <<c>> : c \in Colors }
  \cup { <<"use", SP, c, SP, "key">> : c \in {"blue", "cyan", "orange", "red"} }

\* the lines that are also typed with blanks around them
PaddedLines == { <<"quit">>, <<"use", SP, "blue", SP, "key">> }

Blanks(n) == [i \in 1..n |-> SP]

Inputs ==
  Lines \cup
  { Blanks(i) \o l \o Blanks(j) : i \in 0..MaxPad, j \in 0..MaxPad, l \in PaddedLines }

----------------------------------------------------------------------------
(* The command loop *)

Init ==
  /\ current_room = Kitchen
  /\ inventory = <<>>
  /\ keys = InitKeys
  /\ doors = InitDoors
  /\ light_on = FALSE
  /\ pc = "describe"
  /\ line = <<>>
  /\ command = <<>>
  /\ shown = <<>>
  /\ out = <<>>
  /\ pulls = 0
  /\ again = FALSE
  /\ scen = 0

\* the effect of a handler on the program's variables
Becomes(g) ==
  /\ current_room' = g.current_room
  /\ inventory' = g.inventory
  /\ keys' = g.keys
  /\ doors' = g.doors
  /\ light_on' = g.light_on
  /\ out' = g.out

\* the effect of describe() on the program's variables
Shows(g) ==
  /\ current_room' = g.current_room
  /\ inventory' = g.inventory
  /\ keys' = g.keys
  /\ doors' = g.doors
  /\ light_on' = g.light_on
  /\ shown' = g.out

\* top of the loop: describe the room, read one of the lines of S and
\* normalise it.  scen counts how many commands of Scenario the run has
\* followed since the start (Len(Scenario) + 1 once it has left it).
PromptFrom(S) ==
  /\ pc = "describe"
  /\ Shows(Room_describe(State))
  /\ \E raw \in S :
       /\ Normalize(raw) \in Actions[current_room] => pulls < MaxPulls
       /\ line' = raw
       /\ command' = Normalize(raw)
       /\ again' = (shown # <<>> /\ Normalize(raw) = command)
       /\ scen' = IF scen < Len(Scenario) /\ Normalize(raw) = Scenario[scen + 1]
                  THEN scen + 1 ELSE Len(Scenario) + 1
  /\ pc' = "dispatch"
  /\ UNCHANGED <<out, pulls>>

Prompt == PromptFrom(Inputs)

\* input() at end of input raises EOFError, which play does not catch
EndOfInput ==
  /\ pc = "describe"
  /\ Shows(Room_describe(State))
  /\ pc' = "eof_error"
  /\ UNCHANGED <<line, command, out, pulls, again, scen>>

Quit ==
  /\ pc = "dispatch"
  /\ command = QuitCmd
  /\ out' = <<FarewellMsg>>
  /\ pc' = "done"
  /\ UNCHANGED <<current_room, inventory, keys, doors, light_on,
                 line, command, shown, pulls, again, scen>>

TakeKey ==
  /\ pc = "dispatch"
  /\ command # QuitCmd
  /\ command = TakeKeyCmd
  /\ Becomes(take_key(State))
  /\ pc' = "describe"
  /\ UNCHANGED <<line, command, shown, pulls, again, scen>>

Use ==
  /\ pc = "dispatch"
  /\ command # QuitCmd
  /\ command # TakeKeyCmd
  /\ StartsWithUse(command)
  /\ Becomes(use_command(State, command))
  /\ pc' = "describe"
  /\ UNCHANGED <<line, command, shown, pulls, again, scen>>

Inventory ==
  /\ pc = "dispatch"
  /\ command # QuitCmd
  /\ command # TakeKeyCmd
  /\ ~StartsWithUse(command)
  /\ command = InventoryCmd
  /\ Becomes(list_inventory(State))
  /\ pc' = "describe"
  /\ UNCHANGED <<line, command, shown, pulls, again, scen>>

CustomAction ==
  /\ pc = "dispatch"
  /\ command # QuitCmd
  /\ command # TakeKeyCmd
  /\ ~StartsWithUse(command)
  /\ command # InventoryCmd
  /\ command \in Actions[current_room]
  /\ Becomes(toggle_light(State))
  /\ pulls' = pulls + 1
  /\ pc' = "describe"
  /\ UNCHANGED <<line, command, shown, again, scen>>

Move ==
  /\ pc = "dispatch"
  /\ command # QuitCmd
  /\ command # TakeKeyCmd
  /\ ~StartsWithUse(command)
  /\ command # InventoryCmd
  /\ command \notin Actions[current_room]
  /\ Becomes(move(State, command))
  /\ pc' = "describe"
  /\ UNCHANGED <<line, command, shown, pulls, again, scen>>

Dispatch == Quit \/ TakeKey \/ Use \/ Inventory \/ CustomAction \/ Move

Next == Prompt \/ EndOfInput \/ Quit \/ TakeKey \/ Use \/ Inventory
          \/ CustomAction \/ Move

Spec == Init /\ [][Next]_vars

\* once a line has been read the interpreter runs its handler
LiveSpec == Spec /\ WF_vars(Dispatch)

----------------------------------------------------------------------------
(* Worlds with several doors of one color in a room *)

\* Room.add_door checks nothing, so a room can be given a second door of a
\* color it already has.  create_world never does; each of these sequences
\* of further add_door calls, made after those of create_world, does.
DupWorlds ==
  { << <<Kitchen, "blue", Garden, FALSE>> >>,
    << <<Kitchen, "blue", Garden, TRUE>> >>,
    << <<LivingRoom, "blue", Bedroom, FALSE>>,
       <<LivingRoom, "blue", Study, TRUE>> >>,
    << <<Kitchen, "red", Study, TRUE>>,
       <<Kitchen, "blue", Garden, FALSE>>,
       <<LivingRoom, "blue", Bedroom, FALSE>>,
       <<LivingRoom, "blue", Study, TRUE>> >> }

\* the lines typed in these worlds
DupInputs ==
  { <<c>> : c \in Colors }
  \cup { QuitCmd, TakeKeyCmd, InventoryCmd, PullStringCmd,
         <<"use", SP, "blue", SP, "key">>, <<"use", SP, "red", SP, "key">> }

DupInit ==
  /\ current_room = Kitchen
  /\ inventory = <<>>
  /\ keys = InitKeys
  /\ doors \in {BuildDoors(InitDoors, extra) : extra \in DupWorlds}
  /\ light_on = FALSE
  /\ pc = "describe"
  /\ line = <<>>
  /\ command = <<>>
  /\ shown = <<>>
  /\ out = <<>>
  /\ pulls = 0
  /\ again = FALSE
  /\ scen = 0

DupPrompt == PromptFrom(DupInputs)

DupNext == DupPrompt \/ EndOfInput \/ Quit \/ TakeKey \/ Use \/ Inventory
             \/ CustomAction \/ Move

DupSpec == DupInit /\ [][DupNext]_vars

----------------------------------------------------------------------------
(* Vocabulary of the properties *)

Core == <<current_room, inventory, keys, doors, light_on>>

\* every word that can occur in a normalised command
Words == UNION { {Normalize(l)[i] : i \in DOMAIN Normalize(l)} : l \in Lines }

\* the step about to run is the call Player.use_key(c)
UseKeyCall(c) ==
  /\ pc = "dispatch"
  /\ StartsWithUse(command)
  /\ Split(command) = <<"use", c, "key">>

\* the step about to run is Player.take_key()
TakeKeyCall == pc = "dispatch" /\ command = TakeKeyCmd

\* the step about to run is a movement command naming color c
MoveCall(c) ==
  /\ pc = "dispatch"
  /\ command = <<c>>
  /\ command \notin {QuitCmd, InventoryCmd}
  /\ command \notin Actions[current_room]

HoldsKey(c) == \E i \in DOMAIN inventory : KeyColor[inventory[i]] = c

\* i is the first door of color c in room r
IsFirstDoor(r, i, c) ==
  /\ i \in DOMAIN doors[r]
  /\ doors[r][i].color = c
  /\ \A j \in 1..(i - 1) : doors[r][j].color # c

\* some door's locked flag goes from true to false in this step
SomeDoorUnlocks ==
  \E r \in Rooms : \E i \in DOMAIN doors[r] :
    doors[r][i].locked /\ ~doors'[r][i].locked

----------------------------------------------------------------------------
(* Properties *)

\* C1: use_key(color) turns a door's locked flag from true to false exactly
\* when the inventory holds a key of that color, the current room has a door
\* of that color, and the first such door is locked; the door unlocked is
\* that one, and when one of the three fails no locked flag changes.
C1_UseKeyUnlocksIff ==
  [][\A c \in Words : UseKeyCall(c) =>
       LET ok == /\ HoldsKey(c)
                 /\ \E i \in DOMAIN doors[current_room] :
                      IsFirstDoor(current_room, i, c) /\ doors[current_room][i].locked
       IN /\ ok <=> SomeDoorUnlocks
          /\ ok => \E i \in DOMAIN doors[current_room] :
                     /\ IsFirstDoor(current_room, i, c)
                     /\ doors' = [doors EXCEPT ![current_room][i].locked = FALSE]
          /\ ~ok => doors' = doors]_vars

\* use_key has just unlocked Kitchen's blue door
C1_Witness ==
  /\ pc = "describe"
  /\ current_room = Kitchen
  /\ out = <<UnlockedMsg("blue")>>
  /\ ~doors[Kitchen][2].locked
  /\ HoldsKey("blue")

\* C2: a movement command naming the color of a door that is locked in the
\* current room leaves current_room unchanged and the door locked, with or
\* without the matching key in the inventory.
C2_LockedDoorBlocks ==
  [][\A c \in Words :
       (/\ MoveCall(c)
        /\ \E i \in DOMAIN doors[current_room] :
             doors[current_room][i].color = c /\ doors[current_room][i].locked)
       => current_room' = current_room /\ doors' = doors]_vars

\* the player, holding the blue key, has just been refused at Kitchen's
\* locked blue door
C2_Witness ==
  /\ pc = "describe"
  /\ command = <<"blue">>
  /\ current_room = Kitchen
  /\ out = <<LockedMsg>>
  /\ HoldsKey("blue")
  /\ doors[Kitchen][2].locked

\* C3: a movement command naming the color of an unlocked door of the
\* current room sets current_room to that door's leads_to and changes
\* nothing else.
C3_UnlockedDoorMoves ==
  [][\A c \in Words : \A i \in DOMAIN doors[current_room] :
       (/\ MoveCall(c)
        /\ IsFirstDoor(current_room, i, c)
        /\ ~doors[current_room][i].locked)
       => /\ current_room' = doors[current_room][i].leads_to
          /\ UNCHANGED <<inventory, keys, doors, light_on, pulls>>]_vars

\* the player has just walked from the Bedroom into the closet
C3_Witness ==
  /\ pc = "describe"
  /\ command = <<"white">>
  /\ current_room = BedroomCloset

\* C4: current_room changes only in a step that is a movement command
\* through an unlocked door of the current room.
C4_OnlyMoveChangesRoom ==
  [][current_room' # current_room =>
       \E c \in Words : \E i \in DOMAIN doors[current_room] :
         /\ MoveCall(c)
         /\ IsFirstDoor(current_room, i, c)
         /\ ~doors[current_room][i].locked
         /\ current_room' = doors[current_room][i].leads_to]_vars

\* the player has just walked through Kitchen's blue door, unlocked earlier
\* by a command that did not move them
C4_Witness ==
  /\ pc = "describe"
  /\ command = <<"blue">>
  /\ current_room = Study
  /\ HoldsKey("blue")

\* C5: in a room holding at least one key, take_key() empties the room's key
\* collection and appends its keys, in the room's order, to the inventory;
\* the keys of other rooms and all doors are unchanged.
C5_TakeKeyMovesAll ==
  [][(TakeKeyCall /\ keys[current_room] # <<>>) =>
       /\ keys'[current_room] = <<>>
       /\ inventory' = inventory \o keys[current_room]
       /\ \A r \in Rooms \ {current_room} : keys'[r] = keys[r]
       /\ doors' = doors
       /\ current_room' = current_room]_vars

\* the cyan key has just been taken in the Garden by a player already
\* holding the blue key
C5_Witness ==
  /\ pc = "describe"
  /\ command = TakeKeyCmd
  /\ current_room = Garden
  /\ inventory = <<"key_blue", "key_cyan">>
  /\ keys[Garden] = <<>>
  /\ out = <<PickedUpMsg("cyan")>>

\* C6: 'take key' issued right after 'take key' changes nothing: it reports
\* that there are no keys here and leaves the inventory (and the rest of the
\* game state) as the first call left it.
C6_TakeKeyIdempotent ==
  [][(TakeKeyCall /\ again) =>
       /\ Core' = Core
       /\ out' = <<NoKeysMsg>>]_vars

\* a second 'take key' in a row has run in the Living Room after the first
\* picked up the blue key
C6_Witness ==
  /\ pc = "describe"
  /\ again
  /\ command = TakeKeyCmd
  /\ current_room = LivingRoom
  /\ inventory = <<"key_blue">>
  /\ out = <<NoKeysMsg>>

\* C7: use_key(color) never changes a door of a room other than the
\* current room.
C7_UseKeyCurrentRoomOnly ==
  [][\A c \in Words : UseKeyCall(c) =>
       \A r \in Rooms \ {current_room} : doors'[r] = doors[r]]_vars

\* 'use blue key' has run in the Living Room with the blue key held, and
\* Kitchen's blue door is still locked
C7_Witness ==
  /\ pc = "describe"
  /\ StartsWithUse(command)
  /\ Split(command) = <<"use", "blue", "key">>
  /\ current_room = LivingRoom
  /\ HoldsKey("blue")
  /\ out = <<NoSuchDoorMsg("blue")>>
  /\ doors[Kitchen][2].locked

\* C8: use_key never changes the inventory; 'use <color> key' issued right
\* after the same command changes nothing, and when the first one unlocked
\* the door the second reports it already unlocked.
C8_UseKeyIdempotent ==
  [][\A c \in Words : UseKeyCall(c) =>
       /\ inventory' = inventory
       /\ again => Core' = Core
       /\ (again /\ out = <<UnlockedMsg(c)>>)
            => out' = <<AlreadyUnlockedMsg(c)>>]_vars

\* 'use blue key' has run twice in a row in the Kitchen: the door is open,
\* the key is still held
C8_Witness ==
  /\ pc = "describe"
  /\ again
  /\ Split(command) = <<"use", "blue", "key">>
  /\ current_room = Kitchen
  /\ out = <<AlreadyUnlockedMsg("blue")>>
  /\ inventory = <<"key_blue">>
  /\ ~doors[Kitchen][2].locked

\* C9: the light flag starts false; the n-th 'pull string' run in the closet
\* sets it to true and reports on when n is odd, to false and reports off
\* when n is even; no other step changes the flag.
C9_LightAlternates ==
  /\ (light_on = FALSE /\ pulls = 0)
  /\ [][IF pc = "dispatch" /\ command = PullStringCmd
           /\ current_room = BedroomCloset
        THEN /\ pulls' = pulls + 1
             /\ light_on' = (pulls' % 2 = 1)
             /\ light_on' # light_on
             /\ out' = <<IF pulls' % 2 = 1 THEN LightOnMsg ELSE LightOffMsg>>
        ELSE light_on' = light_on /\ pulls' = pulls]_vars

\* the string has been pulled a second time, some other command having run
\* since the first pull
C9_Witness ==
  /\ pc = "describe"
  /\ ~again
  /\ pulls = 2
  /\ ~light_on
  /\ out = <<LightOffMsg>>
  /\ current_room = BedroomCloset

\* the typed line is the word quit, in any case, with whitespace around it
IsQuitLine(l) ==
  /\ Len(Split(l)) = 1
  /\ Split(l)[1] \in {"quit", "QUIT", "Quit"}

\* C10: a line that is 'quit' after trimming and lowercasing ends the loop
\* and leaves the game state unchanged; no other line ends the loop; once
\* 'quit' has been entered the loop eventually ends.
C10_QuitTerminates ==
  /\ [][pc = "dispatch" =>
          IF IsQuitLine(line)
          THEN pc' = "done" /\ Core' = Core
          ELSE pc' = "describe"]_vars
  /\ [][pc' = "done" => (pc = "done" \/ (pc = "dispatch" /\ IsQuitLine(line)))]_vars
  /\ ((pc = "dispatch" /\ IsQuitLine(line)) ~> (pc = "done"))

\* the loop has ended on a line typed as quit between two tabs
C10_Witness ==
  /\ pc = "done"
  /\ line = <<TAB, "quit", TAB>>
  /\ out = <<FarewellMsg>>

\* the step about to run is the else branch of play, and no door of the
\* current room has the command as its color
MoveNoDoor ==
  /\ pc = "dispatch"
  /\ command \notin {QuitCmd, TakeKeyCmd, InventoryCmd}
  /\ ~StartsWithUse(command)
  /\ command \notin Actions[current_room]
  /\ \A i \in DOMAIN doors[current_room] : <<doors[current_room][i].color>> # command

\* the step about to run is a movement command naming a locked door
MoveLocked ==
  \E c \in Words : \E i \in DOMAIN doors[current_room] :
    MoveCall(c) /\ IsFirstDoor(current_room, i, c) /\ doors[current_room][i].locked

\* the step about to run is a 'use' command that is not 'use <color> key'
MalformedUse ==
  /\ pc = "dispatch"
  /\ StartsWithUse(command)
  /\ ~(Len(Split(command)) = 3 /\ Split(command)[3] = "key")

\* the step about to run is use_key(c) with no such key, no such door, or
\* the door already unlocked
UseKeyMiss ==
  \E c \in Words :
    /\ UseKeyCall(c)
    /\ \/ ~HoldsKey(c)
       \/ \A i \in DOMAIN doors[current_room] : doors[current_room][i].color # c
       \/ \E i \in DOMAIN doors[current_room] :
            IsFirstDoor(current_room, i, c) /\ ~doors[current_room][i].locked

\* C11: a movement command for a color with no door, a movement command for
\* a locked door, a malformed 'use', 'take key' in a room without keys, and
\* 'use <color> key' with no such key, no such door or an unlocked door all
\* leave the game state unchanged and the loop running.
C11_MissesChangeNothing ==
  [][(\/ MoveNoDoor
      \/ MoveLocked
      \/ MalformedUse
      \/ (TakeKeyCall /\ keys[current_room] = <<>>)
      \/ UseKeyMiss)
     => (Core' = Core /\ pc' = "describe")]_vars

\* 'use blue' has been answered with the usage hint in the Kitchen, the
\* blue key held and the blue door still locked
C11_Witness ==
  /\ pc = "describe"
  /\ command = <<"use", SP, "blue">>
  /\ out = <<UsageMsg>>
  /\ current_room = Kitchen
  /\ HoldsKey("blue")
  /\ doors[Kitchen][2].locked

\* C12: end of input at the prompt ends the game as an implicit quit: the
\* loop never ends in a fatal error state.
C12_EndOfInputIsQuit == pc \in {"describe", "dispatch", "done"}

\* C13: 'pull string' toggles the light only in the Bedroom Closet and is a
\* door color with no door everywhere else; a command starting with 'use '
\* is never run as a custom action or a door color; quit, take key and
\* inventory are run by their own handlers.
C13_DispatchPriority ==
  [][pc = "dispatch" =>
       /\ command = PullStringCmd =>
            IF current_room = BedroomCloset
            THEN /\ light_on' = ~light_on
                 /\ out' \in {<<LightOnMsg>>, <<LightOffMsg>>}
                 /\ UNCHANGED <<current_room, inventory, keys, doors>>
            ELSE Core' = Core /\ out' = <<NoDoorMsg>>
       /\ StartsWithUse(command) =>
            /\ UNCHANGED <<current_room, light_on, inventory, keys>>
            /\ Len(out') = 1
            /\ out'[1] \notin {NoDoorMsg, LockedMsg, LightOnMsg, LightOffMsg}
            /\ pc' = "describe"
       /\ command = QuitCmd => (out' = <<FarewellMsg>> /\ pc' = "done")
       /\ command = TakeKeyCmd =>
            (out' # <<>> /\ out'[1] \in {NoKeysMsg} \cup
                              {PickedUpMsg(KeyColor[k]) : k \in DOMAIN KeyColor})
       /\ command = InventoryCmd =>
            (Core' = Core /\ out' # <<>> /\ out'[1] # NoDoorMsg)]_vars

\* 'pull string' has been typed in the Living Room, with the closet light
\* left on: it was looked up as a door color
C13_Witness ==
  /\ pc = "describe"
  /\ command = PullStringCmd
  /\ current_room = LivingRoom
  /\ out = <<NoDoorMsg>>
  /\ light_on

\* C14: describe(), run at the top of every loop iteration, and the
\* 'inventory' command leave current_room, the inventory, every room's
\* keys, every door and the light flag unchanged.
C14_PresentationIsPure ==
  [][/\ pc = "describe" => Core' = Core
     /\ (pc = "dispatch" /\ command = InventoryCmd) => Core' = Core]_vars

\* the Living Room, its key still there, has been described, and before
\* that the empty inventory was listed
C14_Witness ==
  /\ pc = "dispatch"
  /\ current_room = LivingRoom
  /\ <<"key", "blue">> \in {shown[i] : i \in DOMAIN shown}
  /\ keys[LivingRoom] = <<"key_blue">>
  /\ out = <<NotCarryingMsg>>

\* C15: from the start (Kitchen, empty inventory) 'red' leads to the Living
\* Room, 'take key' puts the blue key in the inventory, 'green' leads back
\* to the Kitchen, and 'blue' is refused: the player stays in the Kitchen
\* and Kitchen's blue door is still locked.
C15_Scenario ==
  /\ scen = 0 => (current_room = Kitchen /\ inventory = <<>>)
  /\ pc = "describe" =>
       /\ scen = 1 => (current_room = LivingRoom /\ inventory = <<>>)
       /\ scen = 2 => (current_room = LivingRoom /\ inventory = <<"key_blue">>
                       /\ keys[LivingRoom] = <<>>)
       /\ scen = 3 => (current_room = Kitchen /\ inventory = <<"key_blue">>)
       /\ scen = 4 => (/\ current_room = Kitchen
                       /\ inventory = <<"key_blue">>
                       /\ out = <<LockedMsg>>
                       /\ \E i \in DOMAIN doors[Kitchen] :
                            doors[Kitchen][i].color = "blue"
                            /\ doors[Kitchen][i].locked)

\* the four commands of the scenario have run
C15_Witness ==
  /\ pc = "describe"
  /\ scen = Len(Scenario)
  /\ current_room = Kitchen

\* room r has two doors of color c, at i and later at j
TwoDoors(r, c, i, j) ==
  /\ i \in DOMAIN doors[r]
  /\ j \in DOMAIN doors[r]
  /\ i < j
  /\ doors[r][i].color = c
  /\ doors[r][j].color = c

\* C16: with several doors of one color in a room, movement and use_key
\* act on the first of them in insertion order: movement is refused when
\* the first is locked and goes to the first's destination otherwise;
\* use_key reports already unlocked when the first is unlocked, unlocks the
\* first when it is locked, and leaves the later doors as they are.
C16_FirstDoorOfColor ==
  [][\A c \in Words : \A i \in DOMAIN doors[current_room] :
       IsFirstDoor(current_room, i, c) =>
         /\ MoveCall(c) =>
              IF doors[current_room][i].locked
              THEN /\ current_room' = current_room
                   /\ doors' = doors
                   /\ out' = <<LockedMsg>>
              ELSE /\ current_room' = doors[current_room][i].leads_to
                   /\ doors' = doors
         /\ (UseKeyCall(c) /\ HoldsKey(c)) =>
              IF doors[current_room][i].locked
              THEN /\ doors' = [doors EXCEPT ![current_room][i].locked = FALSE]
                   /\ out' = <<UnlockedMsg(c)>>
              ELSE /\ doors' = doors
                   /\ out' = <<AlreadyUnlockedMsg(c)>>]_vars

\* in the Living Room, whose first blue door is unlocked and whose later
\* blue door is locked, 'use blue key' with the key held has reported
\* already unlocked and the later door is still locked
C16_Witness ==
  /\ pc = "describe"
  /\ current_room = LivingRoom
  /\ HoldsKey("blue")
  /\ out = <<AlreadyUnlockedMsg("blue")>>
  /\ \E i, j \in DOMAIN doors[LivingRoom] :
       /\ TwoDoors(LivingRoom, "blue", i, j)
       /\ ~doors[LivingRoom][i].locked
       /\ doors[LivingRoom][j].locked

\* in the Kitchen, whose first blue door is locked and whose later blue
\* door is unlocked, 'blue' has been refused
C16_MoveSeen ==
  /\ pc = "describe"
  /\ current_room = Kitchen
  /\ command = <<"blue">>
  /\ out = <<LockedMsg>>
  /\ \E i, j \in DOMAIN doors[Kitchen] :
       /\ TwoDoors(Kitchen, "blue", i, j)
       /\ doors[Kitchen][i].locked
       /\ ~doors[Kitchen][j].locked

\* room r has a locked door of color c
LockedDoor(r, c) ==
  \E i \in DOMAIN doors[r] : doors[r][i].color = c /\ doors[r][i].locked

\* C17: whenever the player is in the Study the blue key is in the
\* inventory and Kitchen's blue door is unlocked; that door is unlocked only
\* by 'use blue key' run in the Kitchen with the blue key held, and the blue
\* key enters the inventory only by 'take key' run in the Living Room.
C17_StudyOrder ==
  /\ [](current_room = Study => (HoldsKey("blue") /\ ~LockedDoor(Kitchen, "blue")))
  /\ [][(LockedDoor(Kitchen, "blue") /\ ~LockedDoor(Kitchen, "blue")') =>
          (UseKeyCall("blue") /\ current_room = Kitchen /\ HoldsKey("blue"))]_vars
  /\ [][(~HoldsKey("blue") /\ HoldsKey("blue")') =>
          (TakeKeyCall /\ current_room = LivingRoom)]_vars

\* the player has reached the Study
C17_Witness ==
  /\ current_room = Study
  /\ pc = "dispatch"

\* the number of places (positions in room key lists and in the inventory)
\* that hold key k
Places(k) ==
  Cardinality({<<r, i>> \in Rooms \X (1..Len(AllKeys)) :
                 i \in DOMAIN keys[r] /\ keys[r][i] = k})
  + Cardinality({i \in DOMAIN inventory : inventory[i] = k})

\* s is a prefix of t
IsPrefix(s, t) == Len(s) <= Len(t) /\ SubSeq(t, 1, Len(s)) = s

\* C18: each of the two keys is in exactly one place, a room's key list or
\* the inventory; the inventory only grows and holds at most two keys.
C18_KeyConservation ==
  /\ [](/\ \A n \in DOMAIN AllKeys : Places(AllKeys[n]) = 1
        /\ \A r \in Rooms : Len(keys[r]) <= Len(AllKeys)
        /\ Len(inventory) <= 2)
  /\ [][IsPrefix(inventory, inventory')]_vars

\* both keys are in the inventory and, the blue one having been used, no
\* room holds a key
C18_Witness ==
  /\ inventory = <<"key_blue", "key_cyan">>
  /\ \A r \in Rooms : keys[r] = <<>>
  /\ ~LockedDoor(Kitchen, "blue")

\* the locked doors, each named by its room and color
LockedSet ==
  {<<r, doors[r][i].color>> : <<r, i>> \in
     {<<r, i>> \in Rooms \X (1..Len(DoorDecls)) :
        i \in DOMAIN doors[r] /\ doors[r][i].locked}}

\* C19: no step sets a locked flag to true: the set of locked doors starts
\* as {Kitchen blue, Garden orange} and only shrinks.
C19_LockMonotone ==
  /\ LockedSet = {<<Kitchen, "blue">>, <<Garden, "orange">>}
  /\ [][/\ LockedSet' \subseteq LockedSet
        /\ \A r \in Rooms :
             /\ DOMAIN doors'[r] = DOMAIN doors[r]
             /\ \A i \in DOMAIN doors[r] :
                  ~doors[r][i].locked => ~doors'[r][i].locked]_vars

\* Kitchen's blue door, unlocked, is still unlocked after 'use blue key' has
\* been run on it again
C19_Witness ==
  /\ pc = "describe"
  /\ current_room = Kitchen
  /\ LockedSet = {<<Garden, "orange">>}
  /\ out = <<AlreadyUnlockedMsg("blue")>>

\* C20: the Garden's only door is the orange one, no key is orange, so that
\* door is locked in every state, and a player in the Garden stays in the
\* Garden.
C20_GardenTrap ==
  /\ [](/\ Len(doors[Garden]) = 1
        /\ doors[Garden][1].color = "orange"
        /\ doors[Garden][1].locked
        /\ \A n \in DOMAIN AllKeys : KeyColor[AllKeys[n]] # "orange"
        /\ KeyColor["key_cyan"] = "cyan")
  /\ [][current_room = Garden => current_room' = Garden]_vars

\* in the Garden, the cyan key taken, the player has been refused at the
\* orange door
C20_Witness ==
  /\ pc = "describe"
  /\ current_room = Garden
  /\ HoldsKey("cyan")
  /\ command = <<"orange">>
  /\ out = <<LockedMsg>>

====
